---- MODULE Spec2Model ----
(***************************************************************************)
(* A model of the JILL buffers:                                            *)
(*   - Ringbuffer<T>            (jill/ringbuffer.hh)                       *)
(*   - period_ringbuffer        (period_ringbuffer.cc)                     *)
(* Each public call is one action.  A second specification (SpecSPSC)      *)
(* splits Ringbuffer push and pop into their copies and index updates and  *)
(* interleaves one producer with one consumer.                             *)
(*                                                                         *)
(* Memory cells hold naturals.  NoVal marks a cell nobody has written yet  *)
(* (new T[_size] leaves POD elements uninitialised; the caller's dest      *)
(* buffer before pop fills it).                                            *)
(***************************************************************************)
EXTENDS Integers, Sequences, FiniteSets, TLC

(* ----------------------------- bounds --------------------------------- *)
\* largest size requested from the Ringbuffer constructor
MaxReqSize == 3
\* element values pushed into a Ringbuffer<T> are 0..MaxVal
MaxVal == 1
\* largest cnt argument of push/pop/advance/flush
MaxCnt == 4
\* cap on the running sums of returned counts (SpecPushPop, SpecSPSC)
MaxTotal == 6
\* size_type is unsigned; its arithmetic is modulo 2^SizeTBits.  _size is a
\* power of two that divides the modulus, as it divides 2^64.
SizeTBits == 16

\* size requested from the period_ringbuffer constructor
PrbReqSize == 15
\* nbytes of a period is 1..MaxNbytes, nchannels is 0..MaxChannels
MaxNbytes == 1
MaxChannels == 2
\* cap on the number of periods the writer completes
MaxPeriods == 4
MaxPushes == 2
MaxSignals == 1
\* longest window of a trigger, in buffers
MaxWindow == 2
\* largest crossings_per_open_window / crossings_per_close_window
MaxCrossings == 2
\* longest buffer handed to a trigger, in frames
MaxFrames == 2
\* cap on trigger_data_t::samples_processed
MaxProcessed == 6

SizeTModulus == 2 ^ SizeTBits
NoVal == 0 - 1
Vals == 0 .. MaxVal

VARIABLES
    _buf,          \* Ringbuffer::_buf, a function on 0 .. _size-1 (and past it, see period_ringbuffer)
    _write_ptr,    \* Ringbuffer::_write_ptr
    _read_ptr,     \* Ringbuffer::_read_ptr
    _size,         \* Ringbuffer::_size
    call,          \* the last completed call: its name, arguments and results
    pushed_total,  \* sum of the values returned by push so far
    popped_total,  \* sum of the values returned by pop so far
    prod,          \* the producer thread inside push: its position and locals
    cons,          \* the consumer thread inside pop: its position and locals
    pushedSeq,     \* the elements the producer has copied into the buffer, in order
    poppedSeq,     \* the elements handed to the consumer's visitor, in order
    full,          \* the slots holding a copied element that has not been read
    race,          \* what went wrong between the threads so far
    _write_hdr,    \* period_ringbuffer::_write_hdr: NullPtr or the header's offset in _buf
    _read_hdr,     \* period_ringbuffer::_read_hdr
    _chans_to_write, \* period_ringbuffer::_chans_to_write
    _chans_to_read,  \* period_ringbuffer::_chans_to_read
    periods,       \* the periods completely pushed so far, in order, as they were given
    cur,           \* the channels pushed so far into the period being written
    nreq,          \* the number of request() calls that returned a header
    npop,          \* the number of pop calls that returned since the last such request()
    _lock,         \* buffered_data_writer::_lock: who holds the mutex
    _ready,        \* buffered_data_writer::_ready: a wake is pending for the writer thread
    _xrun,         \* buffered_data_writer::_xrun
    _entry_close,  \* buffered_data_writer::_entry_close
    _stop,         \* buffered_data_writer::_stop
    thr,           \* the writer thread: its position in the drain loop and locals
    rt,            \* the real-time thread inside buffered_data_writer::push
    rsz,           \* the caller of resize_buffer: its position and the size asked for
    sunk,          \* what the data_writer (the sink) was called with, in order
    marks,         \* what had been pushed when stop() and resize_buffer() were called
    trigger        \* trigger_data_t

rb == <<_buf, _write_ptr, _read_ptr, _size>>
totals == <<pushed_total, popped_total>>
spsc == <<prod, cons, pushedSeq, poppedSeq, full, race>>
hdrs == <<_write_hdr, _read_hdr, _chans_to_write, _chans_to_read>>
prbv == <<_write_hdr, _read_hdr, _chans_to_write, _chans_to_read, periods, cur, nreq, npop>>
wtv == <<_lock, _ready, _xrun, _entry_close, _stop, thr, rt, rsz, sunk, marks>>
ext == <<_lock, _ready, _xrun, _entry_close, _stop, thr, rt, rsz, sunk, marks, trigger>>
vars == <<_buf, _write_ptr, _read_ptr, _size, call, pushed_total, popped_total,
          prod, cons, pushedSeq, poppedSeq, full, race,
          _write_hdr, _read_hdr, _chans_to_write, _chans_to_read, periods, cur, nreq, npop,
          _lock, _ready, _xrun, _entry_close, _stop, thr, rt, rsz, sunk, marks, trigger>>

(* --------------------------- arithmetic ------------------------------- *)
\* unsigned wrap-around of size_type
SizeT(x) == x % SizeTModulus

\* bitwise and of two naturals
RECURSIVE BitAnd(_, _)
BitAnd(a, b) ==
    IF a = 0 \/ b = 0 THEN 0
    ELSE (a % 2) * (b % 2) + 2 * BitAnd(a \div 2, b \div 2)

Min(a, b) == IF a < b THEN a ELSE b

SeqsOfLen(S, n) == [1 .. n -> S]

\* the source buffers handed to push: n successive values (modulo MaxVal + 1)
\* from any starting value.  Neighbouring elements differ, so a reordering
\* or a misplaced run shows; the code never looks at an element's value.
Srcs(n) == {[i \in 1 .. n |-> (v + i - 1) % (MaxVal + 1)] : v \in Vals}

\* std::copy of the sequence s into memory b at offset at
Copy(b, at, s) ==
    [i \in DOMAIN b |-> IF at <= i /\ i < at + Len(s) THEN s[i - at + 1] ELSE b[i]]

\* the n cells of b from offset at
Run(b, at, n) == [i \in 1 .. n |-> b[at + i - 1]]

(* --------------------------- Ringbuffer<T> ---------------------------- *)
_size_mask == _size - 1

\* the constructor's loop: the least power_of_two >= 1 with 2^power_of_two >= size
RECURSIVE CtorPowerOfTwo(_, _)
CtorPowerOfTwo(power_of_two, sz) ==
    IF 2 ^ power_of_two < sz THEN CtorPowerOfTwo(power_of_two + 1, sz)
    ELSE power_of_two

CtorSize(sz) == 2 ^ CtorPowerOfTwo(1, sz)

read_space ==
    LET w == _write_ptr
        r == _read_ptr
    IN  IF w > r THEN w - r
        ELSE IF w < r THEN BitAnd(SizeT(w - r + _size), _size_mask)
        ELSE 0

\* write_space() returning the whole capacity when the indices differ
write_space_nogap ==
    LET w == _write_ptr
        r == _read_ptr
    IN  IF w > r THEN BitAnd(SizeT(r - w + _size), _size_mask)
        ELSE IF w < r THEN r - w
        ELSE _size - 1

write_space ==
    LET w == _write_ptr
        r == _read_ptr
    IN  IF w > r THEN SizeT(BitAnd(SizeT(r - w + _size), _size_mask) - 1)
        ELSE IF w < r THEN (r - w) - 1
        ELSE _size - 1

\* the record kept of a completed call
Call(op, cnt, src, ret, out, runs) ==
    [op |-> op, cnt |-> cnt, src |-> src, ret |-> ret, out |-> out, runs |-> runs,
     err |-> FALSE]

NoCall == Call("none", 0, <<>>, 0, <<>>, <<>>)

\* the split of a transfer of n elements starting at index ptr
SplitN1(ptr, n) == IF ptr + n > _size THEN _size - ptr ELSE n
SplitN2(ptr, n) == IF ptr + n > _size THEN BitAnd(ptr + n, _size_mask) ELSE 0

\* push's "cnt > free_cnt ? free_cnt : cnt", without the clamp
PushToWrite_noclamp(cnt, free_cnt) == cnt

\* push: to_write
PushToWrite(cnt, free_cnt) == IF cnt > free_cnt THEN free_cnt ELSE cnt

\* Ringbuffer<T>::push(src, cnt): the state change and the call record
push_call ==
    \E cnt \in 0 .. MaxCnt : \E src \in Srcs(cnt) :
        LET free_cnt == write_space IN
        IF free_cnt = 0
        THEN /\ call' = Call("push", cnt, src, 0, <<>>, <<>>)
             /\ UNCHANGED rb
        ELSE LET to_write == PushToWrite(cnt, free_cnt)
                 n1 == SplitN1(_write_ptr, to_write)
                 n2 == SplitN2(_write_ptr, to_write)
                 buf1 == Copy(_buf, _write_ptr, SubSeq(src, 1, n1))
                 w1 == BitAnd(_write_ptr + n1, _size_mask)
                 buf2 == IF n2 # 0 THEN Copy(buf1, w1, SubSeq(src, n1 + 1, n1 + n2))
                         ELSE buf1
                 w2 == IF n2 # 0 THEN BitAnd(w1 + n2, _size_mask) ELSE w1
                 runs == IF n2 # 0 THEN << <<_write_ptr, n1>>, <<w1, n2>> >>
                         ELSE << <<_write_ptr, n1>> >>
             IN  /\ _buf' = buf2
                 /\ _write_ptr' = w2
                 /\ call' = Call("push", cnt, src, to_write, <<>>, runs)
                 /\ UNCHANGED <<_read_ptr, _size>>

\* what a read of the cells s can yield: a cell never written holds an
\* indeterminate value
Resolve(s) ==
    {t \in SeqsOfLen(Vals \cup {c \in {s[i] : i \in DOMAIN s} : c # NoVal}, Len(s)) :
        \A i \in DOMAIN s : s[i] # NoVal => t[i] = s[i]}

\* detail::memcopier::operator(): std::copy(src, src + cnt, _dest)
memcopier(dest, s) ==
    [i \in DOMAIN dest |-> IF i <= Len(s) THEN s[i] ELSE dest[i]]

\* pop's to_read, taking cnt without looking at read_space()
PopToRead_nomin(cnt) == IF cnt = 0 THEN read_space ELSE cnt

\* pop: to_read
PopToRead(cnt) == IF cnt = 0 THEN read_space ELSE Min(read_space, cnt)

\* a visitor that appends each run it is handed to what it has collected
Collect(acc, run) == acc \o run

\* one data_fun call: the memcopier for pop(dst, cnt), else the caller's visitor
data_fun(op, acc, run) ==
    IF op = "pop_copy" THEN memcopier(acc, run) ELSE Collect(acc, run)

\* Ringbuffer<T>::pop(visitor_type data_fun, cnt).  acc0 is what the caller
\* holds before the call.
pop_visit(op, cnt, acc0) ==
    LET to_read == PopToRead(cnt) IN
    IF to_read = 0
    THEN /\ call' = Call(op, cnt, <<>>, 0, <<>>, <<>>)
         /\ UNCHANGED rb
    ELSE LET n1 == SplitN1(_read_ptr, to_read)
             n2 == SplitN2(_read_ptr, to_read)
             r1 == BitAnd(_read_ptr + n1, _size_mask)
             r2 == IF n2 # 0 THEN BitAnd(r1 + n2, _size_mask) ELSE r1
             runs == IF n2 # 0 THEN << <<_read_ptr, n1>>, <<r1, n2>> >>
                     ELSE << <<_read_ptr, n1>> >>
         IN  \E run1 \in Resolve(Run(_buf, _read_ptr, n1)) :
             \E run2 \in Resolve(Run(_buf, r1, n2)) :
                LET acc1 == data_fun(op, acc0, run1)
                    acc2 == IF n2 # 0 THEN data_fun(op, acc1, run2) ELSE acc1
                IN  /\ _read_ptr' = r2
                    /\ call' = Call(op, cnt, <<>>, to_read, acc2, runs)
                    /\ UNCHANGED <<_buf, _write_ptr, _size>>

\* pop with a visitor
pop_call == \E cnt \in 0 .. MaxCnt : pop_visit("pop", cnt, <<>>)

\* Ringbuffer<T>::pop(data_type * dst, cnt): pop(memcopier(dst), cnt).  dst is
\* the caller's buffer, large enough for _size - 1 elements.
pop_copy_call ==
    \E cnt \in 0 .. MaxCnt :
        pop_visit("pop_copy", cnt, [i \in 1 .. _size - 1 |-> NoVal])

\* advance without the std::min
advance_unclamped ==
    \E cnt0 \in 0 .. MaxCnt :
        LET cnt == IF cnt0 = 0 THEN read_space ELSE cnt0 IN
        /\ _read_ptr' = BitAnd(SizeT(_read_ptr + cnt), _size_mask)
        /\ call' = Call("advance", cnt0, <<>>, cnt, <<>>, <<>>)
        /\ UNCHANGED <<_buf, _write_ptr, _size, totals, spsc, prbv, ext>>

\* Ringbuffer<T>::advance(cnt)
advance ==
    \E cnt0 \in 0 .. MaxCnt :
        LET cnt == IF cnt0 = 0 THEN read_space ELSE Min(read_space, cnt0) IN
        /\ _read_ptr' = BitAnd(SizeT(_read_ptr + cnt), _size_mask)
        /\ call' = Call("advance", cnt0, <<>>, cnt, <<>>, <<>>)
        /\ UNCHANGED <<_buf, _write_ptr, _size, totals, spsc, prbv, ext>>

\* Ringbuffer<T>::flush(cnt)
flush ==
    \E cnt \in 0 .. MaxCnt :
        LET to_flush == SizeT(read_space - cnt) IN
        IF to_flush <= 0
        THEN /\ call' = Call("flush", cnt, <<>>, 0, <<>>, <<>>)
             /\ UNCHANGED <<rb, totals, spsc, prbv, ext>>
        ELSE /\ _read_ptr' = BitAnd(SizeT(_read_ptr + to_flush), _size_mask)
             /\ call' = Call("flush", cnt, <<>>, to_flush, <<>>, <<>>)
             /\ UNCHANGED <<_buf, _write_ptr, _size, totals, spsc, prbv, ext>>

push == push_call /\ UNCHANGED <<totals, spsc, prbv, ext>>
pop == pop_call /\ UNCHANGED <<totals, spsc, prbv, ext>>
pop_copy == pop_copy_call /\ UNCHANGED <<totals, spsc, prbv, ext>>

Idle == [pc |-> "idle", src |-> <<>>, n1 |-> 0, n2 |-> 0]
NoRace == [overwrite |-> FALSE, early_read |-> FALSE]

\* the state the threads of SpecSPSC start in
InitThreads ==
    /\ prod = Idle
    /\ cons = Idle
    /\ pushedSeq = <<>>
    /\ poppedSeq = <<>>
    /\ full = {}
    /\ race = NoRace

NullPtr == 0 - 2

NoMark == 0 - 1

\* buffered_data_writer::buffered_data_writer: flags down, no thread yet
InitWriterVars ==
    /\ _lock = "free"
    /\ _ready = FALSE
    /\ _xrun = FALSE
    /\ _entry_close = FALSE
    /\ _stop = FALSE
    /\ thr = [pc |-> "off"]
    /\ rt = [pc |-> "idle", ret |-> 0]
    /\ rsz = [pc |-> "idle", sz |-> 0]
    /\ sunk = <<>>
    /\ marks = [stop |-> NoMark, resize |-> NoMark, written |-> 0, joined |-> FALSE,
                xruns |-> 0, closes |-> 0, zeros |-> 0]

\* a trigger_data_t nobody has created
NoTrigger == [state |-> 0]

\* period_ringbuffer::period_ringbuffer: the members besides the ring buffer
InitHdrs ==
    /\ _read_hdr = NullPtr
    /\ _write_hdr = NullPtr
    /\ _chans_to_read = 0
    /\ _chans_to_write = 0
    /\ periods = <<>>
    /\ cur = <<>>
    /\ nreq = 0
    /\ npop = 0

\* Ringbuffer<T>::Ringbuffer(size), for every requested size
InitRB ==
    /\ \E sz \in 1 .. MaxReqSize :
          /\ _size = CtorSize(sz)
          /\ _buf = [i \in 0 .. CtorSize(sz) - 1 |-> NoVal]
          /\ call = Call("Ringbuffer", sz, <<>>, 0, <<>>, <<>>)
    /\ _write_ptr = 0
    /\ _read_ptr = 0
    /\ pushed_total = 0
    /\ popped_total = 0
    /\ InitThreads
    /\ InitHdrs
    /\ InitWriterVars
    /\ trigger = NoTrigger

Next == push \/ pop \/ pop_copy \/ advance \/ flush

Spec == InitRB /\ [][Next]_vars

(* push and pop calls only, with the sums of what they returned *)
counted_push ==
    /\ push_call
    /\ pushed_total + call'.ret <= MaxTotal
    /\ pushed_total' = pushed_total + call'.ret
    /\ UNCHANGED <<popped_total, spsc, prbv, ext>>

counted_pop ==
    /\ pop_call
    /\ popped_total' = popped_total + call'.ret
    /\ UNCHANGED <<pushed_total, spsc, prbv, ext>>

counted_pop_copy ==
    /\ pop_copy_call
    /\ popped_total' = popped_total + call'.ret
    /\ UNCHANGED <<pushed_total, spsc, prbv, ext>>

NextPushPop == counted_push \/ counted_pop \/ counted_pop_copy

SpecPushPop == InitRB /\ [][NextPushPop]_vars

(* every call of Spec, with the log of the elements push has stored *)
logged_push ==
    /\ push_call
    /\ Len(pushedSeq) + call'.ret <= MaxTotal
    /\ pushedSeq' = pushedSeq \o SubSeq(call'.src, 1, call'.ret)
    /\ UNCHANGED <<totals, prod, cons, poppedSeq, full, race, prbv, ext>>

NextLogged == logged_push \/ pop \/ pop_copy \/ advance \/ flush

SpecLogged == InitRB /\ [][NextLogged]_vars

(* ---------- one producer in push, one consumer in pop, by steps -------- *)
\* The producer hands push the next cnt elements of an endless stream
\* 1, 2, 3, ...: every element is different, so the order of what comes out
\* is checked exactly.
Slots(at, n) == {at + i : i \in 0 .. n - 1}

\* push, lines 239-252: free_cnt, to_write, n1, n2
p_call ==
    /\ prod.pc = "idle"
    /\ \E cnt \in 0 .. MaxCnt :
          LET free_cnt == write_space
              to_write == PushToWrite(cnt, free_cnt)
              first == Len(pushedSeq)
          IN  /\ first + cnt <= MaxTotal
              /\ IF free_cnt = 0
                 THEN prod' = prod
                 ELSE prod' = [pc |-> "copy1",
                               src |-> [i \in 1 .. to_write |-> first + i],
                               n1 |-> SplitN1(_write_ptr, to_write),
                               n2 |-> SplitN2(_write_ptr, to_write)]
    /\ UNCHANGED <<rb, call, totals, prbv, ext, cons, pushedSeq, poppedSeq, full, race>>

\* one std::copy of push: n elements of src from its index from, at _write_ptr
p_copy(pc, next, from, n) ==
    /\ prod.pc = pc
    /\ _buf' = Copy(_buf, _write_ptr, SubSeq(prod.src, from, from + n - 1))
    /\ pushedSeq' = pushedSeq \o SubSeq(prod.src, from, from + n - 1)
    /\ race' = [race EXCEPT !.overwrite = @ \/ Slots(_write_ptr, n) \cap full # {}]
    /\ full' = full \cup Slots(_write_ptr, n)
    /\ prod' = [prod EXCEPT !.pc = next]
    /\ UNCHANGED <<_write_ptr, _read_ptr, _size, call, totals, prbv, ext, cons, poppedSeq>>

\* line 254
p_copy1 == p_copy("copy1", "idx1", 1, prod.n1)

\* the first index update publishing the whole transfer, second run included
p_idx1_whole ==
    /\ prod.pc = "idx1"
    /\ _write_ptr' = BitAnd(_write_ptr + prod.n1 + prod.n2, _size_mask)
    /\ prod' = IF prod.n2 # 0 THEN [prod EXCEPT !.pc = "copy2"] ELSE Idle
    /\ UNCHANGED <<_buf, _read_ptr, _size, call, totals, prbv, ext, cons, pushedSeq, poppedSeq,
                   full, race>>

\* line 255
p_idx1 ==
    /\ prod.pc = "idx1"
    /\ _write_ptr' = BitAnd(_write_ptr + prod.n1, _size_mask)
    /\ prod' = IF prod.n2 # 0 THEN [prod EXCEPT !.pc = "copy2"] ELSE Idle
    /\ UNCHANGED <<_buf, _read_ptr, _size, call, totals, prbv, ext, cons, pushedSeq, poppedSeq,
                   full, race>>

\* line 258
p_copy2 == p_copy("copy2", "idx2", prod.n1 + 1, prod.n2)

\* line 259
p_idx2 ==
    /\ prod.pc = "idx2"
    /\ _write_ptr' = BitAnd(_write_ptr + prod.n2, _size_mask)
    /\ prod' = Idle
    /\ UNCHANGED <<_buf, _read_ptr, _size, call, totals, prbv, ext, cons, pushedSeq, poppedSeq,
                   full, race>>

\* pop, lines 294-305: to_read, n1, n2
c_call ==
    /\ cons.pc = "idle"
    /\ \E cnt \in 0 .. MaxCnt :
          LET to_read == PopToRead(cnt) IN
          IF to_read = 0
          THEN cons' = cons
          ELSE cons' = [pc |-> "read1", src |-> <<>>,
                        n1 |-> SplitN1(_read_ptr, to_read),
                        n2 |-> SplitN2(_read_ptr, to_read)]
    /\ UNCHANGED <<rb, call, totals, prbv, ext, prod, pushedSeq, poppedSeq, full, race>>

\* one data_fun call of pop: the visitor is handed n elements at _read_ptr
c_read(pc, next, n) ==
    /\ cons.pc = pc
    /\ \E run \in Resolve(Run(_buf, _read_ptr, n)) :
          poppedSeq' = poppedSeq \o run
    /\ race' = [race EXCEPT !.early_read = @ \/ ~(Slots(_read_ptr, n) \subseteq full)]
    /\ full' = full \ Slots(_read_ptr, n)
    /\ cons' = [cons EXCEPT !.pc = next]
    /\ UNCHANGED <<rb, call, totals, prbv, ext, prod, pushedSeq>>

\* line 307
c_read1 == c_read("read1", "idx1", cons.n1)

\* line 308
c_idx1 ==
    /\ cons.pc = "idx1"
    /\ _read_ptr' = BitAnd(_read_ptr + cons.n1, _size_mask)
    /\ cons' = IF cons.n2 # 0 THEN [cons EXCEPT !.pc = "read2"] ELSE Idle
    /\ UNCHANGED <<_buf, _write_ptr, _size, call, totals, prbv, ext, prod, pushedSeq, poppedSeq,
                   full, race>>

\* line 311
c_read2 == c_read("read2", "idx2", cons.n2)

\* line 312
c_idx2 ==
    /\ cons.pc = "idx2"
    /\ _read_ptr' = BitAnd(_read_ptr + cons.n2, _size_mask)
    /\ cons' = Idle
    /\ UNCHANGED <<_buf, _write_ptr, _size, call, totals, prbv, ext, prod, pushedSeq, poppedSeq,
                   full, race>>

NextSPSC ==
    \/ p_call \/ p_copy1 \/ p_idx1 \/ p_copy2 \/ p_idx2
    \/ c_call \/ c_read1 \/ c_idx1 \/ c_read2 \/ c_idx2

SpecSPSC == InitRB /\ [][NextSPSC]_vars

(* -------------------------- period_ringbuffer -------------------------- *)
\* A period_ringbuffer is a ring buffer of bytes (super) with the four
\* members of hdrs.  One cell of _buf is one unit of size: a period_info_t
\* takes one cell for each of its fields time, nbytes and nchannels, a
\* channel takes nbytes cells.  _buf also has the cells that follow the
\* array in memory: the code adds offsets to buffer() without wrapping them.
HeaderSize == 3
SampleSize == 4

\* the cells past the end of the array that a period starting inside it can
\* touch
Overrun == HeaderSize + MaxChannels * MaxNbytes

\* the sample bytes of channel k of the p-th period: all different, the
\* code never looks at them
ChannelData(p, k, nbytes) ==
    [i \in 1 .. nbytes |-> 10 + ((p - 1) * MaxChannels + (k - 1)) * MaxNbytes + i]

write_offset == _write_ptr
read_offset == _read_ptr

\* the cell at offset off from buffer(); outside the modelled memory nothing
\* is known of it
ReadMem(off) == IF off \in DOMAIN _buf THEN _buf[off] ELSE NoVal

\* the values a read of the cell at off can yield
CellValues(off) == IF ReadMem(off) = NoVal THEN Vals ELSE {ReadMem(off)}

\* hdr->nbytes and hdr->nchannels
HdrNbytes(hdr) == CellValues(hdr + 1)
HdrNchannels(hdr) == CellValues(hdr + 2)

\* the period a header and its channels describe
Period(at, time, nbytes, nchannels, chans) ==
    [at |-> at, time |-> time, nbytes |-> nbytes, nchannels |-> nchannels,
     chans |-> chans]

\* the record kept of a completed period_ringbuffer call
PCall(op, args, src, ret, out, runs, err) ==
    [op |-> op, cnt |-> args, src |-> src, ret |-> ret, out |-> out, runs |-> runs,
     err |-> err]

\* throw std::logic_error: nothing but the call record changes
Throw(op, args) ==
    /\ call' = PCall(op, args, <<>>, 0, <<>>, <<>>, TRUE)
    /\ UNCHANGED <<rb, prbv>>

\* super::push(0, cnt): "advances pointer", by what Ringbuffer::push would write
super_push0(cnt) ==
    IF write_space = 0 THEN _write_ptr
    ELSE BitAnd(_write_ptr + PushToWrite(cnt, write_space), _size_mask)

\* super::pop(0, cnt): "advances pointer", by what Ringbuffer::pop would read
super_pop0(cnt) == BitAnd(_read_ptr + PopToRead(cnt), _size_mask)

\* reserve asking for the room of the header only
reserve_chunk_size_header(nbytes, nchannels) == HeaderSize

\* reserve: the room one period needs, counted in samples of SampleSize bytes
reserve_chunk_size(nbytes, nchannels) ==
    HeaderSize + nbytes * nchannels * SampleSize

\* the guard reserve opens with
reserve_busy == _chans_to_write # 0 \/ _write_hdr # NullPtr

\* period_ringbuffer::reserve(time, nbytes, nchannels)
reserve ==
    \E nbytes \in 1 .. MaxNbytes : \E nchannels \in 0 .. MaxChannels :
        LET time == Len(periods) + 1
            args == <<time, nbytes, nchannels>>
        IN
        IF reserve_busy
        THEN Throw("reserve", args)
        ELSE LET chunk_size == reserve_chunk_size(nbytes, nchannels)
                 chunks_avail == write_space \div chunk_size
             IN  IF chunks_avail < 1
                 THEN /\ call' = PCall("reserve", args, <<>>, 0, <<>>, <<>>, FALSE)
                      /\ UNCHANGED <<rb, prbv>>
                 ELSE /\ Len(periods) < MaxPeriods
                      /\ _write_hdr' = write_offset
                      /\ _buf' = Copy(_buf, write_offset, args)
                      /\ _chans_to_write' = nchannels
                      /\ cur' = <<>>
                      /\ call' = PCall("reserve", args, <<>>, chunks_avail, <<>>,
                                       << <<write_offset, HeaderSize>> >>, FALSE)
                      /\ UNCHANGED <<_write_ptr, _read_ptr, _size, _read_hdr,
                                     _chans_to_read, periods, nreq, npop>>

\* the guard push opens with
push_idle == _chans_to_write = 0 \/ _write_hdr = NullPtr

\* push taking every channel for the last one
push_completes_always == TRUE

\* the test push makes after "_chans_to_write -= 1"
push_completes == _chans_to_write - 1 = 0

\* the write index after the push that completes a period
push_advance(nchannels, bpc) == super_push0(nchannels * bpc + HeaderSize)

\* period_ringbuffer::push(src)
prb_push ==
    IF push_idle
    THEN Throw("prb_push", <<>>)
    ELSE \E bpc \in HdrNbytes(_write_hdr) : \E nchannels \in HdrNchannels(_write_hdr) :
         LET k == SizeT(nchannels - _chans_to_write)
             ptr == write_offset + HeaderSize + bpc * k
             src == ChannelData(Len(periods) + 1, k + 1, bpc)
             last == push_completes
             hdr == Run(_buf, _write_hdr, HeaderSize)
         IN  /\ _buf' = Copy(_buf, ptr, src)
             /\ _chans_to_write' = _chans_to_write - 1
             /\ _write_ptr' = IF last THEN push_advance(nchannels, bpc) ELSE _write_ptr
             /\ _write_hdr' = IF last THEN NullPtr ELSE _write_hdr
             /\ periods' = IF last
                           THEN Append(periods, Period(_write_hdr, hdr[1], hdr[2], hdr[3],
                                                       Append(cur, src)))
                           ELSE periods
             /\ cur' = IF last THEN <<>> ELSE Append(cur, src)
             /\ call' = PCall("prb_push", <<>>, src, 0, <<>>, << <<ptr, bpc>> >>, FALSE)
             /\ UNCHANGED <<_read_ptr, _size, _read_hdr, _chans_to_read, nreq, npop>>

\* the guard request opens with
request_busy == _chans_to_read # 0 \/ _read_hdr # NullPtr

\* period_ringbuffer::request()
request ==
    IF request_busy
    THEN Throw("request", <<>>)
    ELSE IF read_space = 0
         THEN /\ call' = PCall("request", <<>>, <<>>, NullPtr, <<>>, <<>>, FALSE)
              /\ UNCHANGED <<rb, prbv>>
         ELSE \E nchannels \in HdrNchannels(read_offset) :
              \E hdr \in Resolve(Run(_buf, read_offset, HeaderSize)) :
                 /\ hdr[3] = nchannels
                 /\ _read_hdr' = read_offset
                 /\ _chans_to_read' = nchannels
                 /\ nreq' = nreq + 1
                 /\ npop' = 0
                 /\ call' = PCall("request", <<>>, <<>>, read_offset, hdr,
                                  << <<read_offset, HeaderSize>> >>, FALSE)
                 /\ UNCHANGED <<rb, _write_hdr, _chans_to_write, periods, cur>>

\* pop's guard without the test of the counter
pop_idle_hdr_only == _read_hdr = NullPtr

\* the guard pop opens with
pop_idle == _chans_to_read = 0 \/ _read_hdr = NullPtr

\* the test pop makes before it advances the read index
pop_advances == _chans_to_write = 0

\* the channels of a period handed over last to first
pop_chan_idx_backwards(nchannels) == SizeT(_chans_to_read - 1)

\* the index of the channel pop hands over
pop_chan_idx(nchannels) == SizeT(nchannels - _chans_to_read)

\* period_ringbuffer::pop, both forms: one channel handed over, then the advance
prb_pop_form(op) ==
    IF pop_idle
    THEN Throw(op, <<>>)
    ELSE \E bpc \in HdrNbytes(_read_hdr) : \E nchannels \in HdrNchannels(_read_hdr) :
         LET k == pop_chan_idx(nchannels)
             ptr == read_offset + HeaderSize + bpc * k
         IN  \E out \in Resolve([i \in 1 .. bpc |-> ReadMem(ptr + i - 1)]) :
             /\ _chans_to_read' = _chans_to_read - 1
             /\ npop' = npop + 1
             /\ IF pop_advances
                THEN /\ _read_ptr' = super_pop0(nchannels * bpc + HeaderSize)
                     /\ _write_hdr' = NullPtr
                ELSE UNCHANGED <<_read_ptr, _write_hdr>>
             /\ call' = PCall(op, k, <<>>, 0, out, << <<ptr, bpc>> >>, FALSE)
             /\ UNCHANGED <<_buf, _write_ptr, _size, _read_hdr, _chans_to_write,
                            periods, cur, nreq>>

\* period_ringbuffer::pop(sample_t * dest)
prb_pop == prb_pop_form("prb_pop") /\ UNCHANGED <<totals, spsc, ext>>

\* period_ringbuffer::pop(read_visitor_type data_fun)
prb_pop_visitor == prb_pop_form("prb_pop_visitor") /\ UNCHANGED <<totals, spsc, ext>>

\* period_ringbuffer::period_ringbuffer(size)
InitSized(size) ==
    /\ _size = CtorSize(size)
    /\ _buf = [i \in 0 .. CtorSize(size) + Overrun - 1 |-> NoVal]
    /\ _write_ptr = 0
    /\ _read_ptr = 0
    /\ call = NoCall
    /\ pushed_total = 0
    /\ popped_total = 0
    /\ InitThreads
    /\ InitHdrs
    /\ InitWriterVars
    /\ trigger = NoTrigger

InitPRB == InitSized(PrbReqSize)

NextPRB ==
    \/ reserve /\ UNCHANGED <<totals, spsc, ext>>
    \/ prb_push /\ UNCHANGED <<totals, spsc, ext>>
    \/ request /\ UNCHANGED <<totals, spsc, ext>>
    \/ prb_pop
    \/ prb_pop_visitor

SpecPRB == InitPRB /\ [][NextPRB]_vars

(* One thread in reserve and push, another in request and pop.  The        *)
(* writer's calls are split where they assign the members pop touches:     *)
(* reserve after "_write_hdr = ptr", push after "_chans_to_write -= 1".    *)
(* prod is the writer's position, prod.src what it carries across.  A      *)
(* store or load through a null _write_hdr is undefined: the thread        *)
(* faults, or it goes on without the store, or with any value loaded.      *)
threads_rest == <<totals, cons, pushedSeq, poppedSeq, full, race, ext>>

\* reserve as far as "_write_hdr = reinterpret_cast<period_info_t*>(ptr)"
reserve_begin ==
    /\ prod.pc = "idle"
    /\ \E nbytes \in 1 .. MaxNbytes : \E nchannels \in 1 .. MaxChannels :
          LET time == Len(periods) + 1
              args == <<time, nbytes, nchannels>>
          IN
          IF reserve_busy
          THEN Throw("reserve", args) /\ UNCHANGED prod
          ELSE IF write_space \div reserve_chunk_size(nbytes, nchannels) < 1
               THEN /\ call' = PCall("reserve", args, <<>>, 0, <<>>, <<>>, FALSE)
                    /\ UNCHANGED <<rb, prbv, prod>>
               ELSE /\ Len(periods) < MaxPeriods
                    /\ _write_hdr' = write_offset
                    /\ prod' = [prod EXCEPT !.pc = "reserve_hdr", !.src = args]
                    /\ UNCHANGED <<rb, call, _read_hdr, _chans_to_write,
                                   _chans_to_read, periods, cur, nreq, npop>>
    /\ UNCHANGED threads_rest

\* the rest of reserve: the three stores through _write_hdr and
\* "_chans_to_write = nchannels"
reserve_fill ==
    /\ prod.pc = "reserve_hdr"
    /\ IF _write_hdr # NullPtr
       THEN /\ _buf' = Copy(_buf, _write_hdr, prod.src)
            /\ prod' = Idle
       ELSE /\ UNCHANGED _buf
            /\ prod' \in {Idle, [Idle EXCEPT !.pc = "fault"]}
    /\ _chans_to_write' = IF prod'.pc = "fault" THEN _chans_to_write ELSE prod.src[3]
    /\ cur' = <<>>
    /\ call' = PCall("reserve", prod.src, <<>>,
                     write_space \div reserve_chunk_size(prod.src[2], prod.src[3]),
                     <<>>, << <<_write_hdr, HeaderSize>> >>, FALSE)
    /\ UNCHANGED <<_write_ptr, _read_ptr, _size, _write_hdr, _read_hdr, _chans_to_read,
                   periods, nreq, npop>>
    /\ UNCHANGED threads_rest

\* push as far as "_chans_to_write -= 1"
push_copy ==
    /\ prod.pc = "idle"
    /\ IF push_idle
       THEN Throw("prb_push", <<>>) /\ UNCHANGED prod
       ELSE \E bpc \in HdrNbytes(_write_hdr) : \E nchannels \in HdrNchannels(_write_hdr) :
            LET k == SizeT(nchannels - _chans_to_write)
                ptr == write_offset + HeaderSize + bpc * k
                src == ChannelData(Len(periods) + 1, k + 1, bpc)
            IN  /\ _buf' = Copy(_buf, ptr, src)
                /\ _chans_to_write' = _chans_to_write - 1
                /\ cur' = Append(cur, src)
                /\ prod' = IF push_completes
                           THEN [prod EXCEPT !.pc = "push_done", !.src = <<_write_hdr>>]
                           ELSE prod
                /\ call' = PCall("prb_push", <<>>, src, 0, <<>>, << <<ptr, bpc>> >>, FALSE)
                /\ UNCHANGED <<_write_ptr, _read_ptr, _size, _write_hdr, _read_hdr,
                               _chans_to_read, periods, nreq, npop>>
    /\ UNCHANGED threads_rest

\* the rest of the push that completes a period: super::push(0, ...) with
\* _write_hdr->nchannels, and "_write_hdr = 0"
push_finish ==
    /\ prod.pc = "push_done"
    /\ \/ /\ _write_hdr # NullPtr
          /\ \E bpc \in HdrNbytes(_write_hdr) : \E nchannels \in HdrNchannels(_write_hdr) :
                /\ _write_ptr' = push_advance(nchannels, bpc)
                /\ periods' = Append(periods,
                                     Period(_write_hdr, ReadMem(_write_hdr), bpc,
                                            nchannels, cur))
          /\ prod' = Idle
       \/ /\ _write_hdr = NullPtr
          /\ \E bpc \in 1 .. MaxNbytes : \E nchannels \in 0 .. MaxChannels :
                /\ _write_ptr' = push_advance(nchannels, bpc)
                /\ periods' = Append(periods,
                                     Period(prod.src[1], ReadMem(prod.src[1]),
                                            ReadMem(prod.src[1] + 1),
                                            ReadMem(prod.src[1] + 2), cur))
          /\ prod' = Idle
       \/ /\ _write_hdr = NullPtr
          /\ prod' = [Idle EXCEPT !.pc = "fault"]
          /\ UNCHANGED <<_write_ptr, periods>>
    /\ _write_hdr' = IF prod'.pc = "fault" THEN _write_hdr ELSE NullPtr
    /\ cur' = <<>>
    /\ UNCHANGED <<_buf, _read_ptr, _size, call, _read_hdr, _chans_to_write,
                   _chans_to_read, nreq, npop>>
    /\ UNCHANGED threads_rest

NextThreads ==
    \/ reserve_begin
    \/ reserve_fill
    \/ push_copy
    \/ push_finish
    \/ request /\ UNCHANGED <<totals, spsc, ext>>
    \/ prb_pop
    \/ prb_pop_visitor

SpecThreads == InitPRB /\ [][NextThreads]_vars

(* ------------------------ buffered_data_writer ------------------------ *)
\* The real-time thread calls push, data_ready and xrun; a control thread
\* calls start, stop, join, close_entry and resize_buffer; the writer thread
\* runs the drain loop.  Every call the threads make on the
\* period_ringbuffer is one step.  _ready is the wake hint of the loop: set
\* by a signal, consumed by the wake, so signals coalesce and none is lost.
BufferSizes == {PrbReqSize - 8, PrbReqSize}
ResizeSizes == {PrbReqSize - 8, PrbReqSize + 2}

\* buffered_data_writer::buffered_data_writer(writer, buffer_size)
InitWriter == \E buffer_size \in BufferSizes : InitSized(buffer_size)

\* one call on the sink (a data_writer)
SinkEvent(ev, time, chan, nchannels, data) ==
    [ev |-> ev, time |-> time, chan |-> chan, nchannels |-> nchannels, data |-> data]

SinkXrun == SinkEvent("xrun", 0, 0, 0, <<>>)
SinkClose == SinkEvent("close_entry", 0, 0, 0, <<>>)

\* the write calls among the sink's calls
Writes(log) == SelectSeq(log, LAMBDA e : e.ev = "write")

\* data_writer::aligned() after the calls of log: a period was written and
\* its last channel is in
aligned(log) ==
    LET w == Writes(log)
    IN  /\ Len(w) > 0
        /\ w[Len(w)].chan + 1 = w[Len(w)].nchannels

\* start(): the thread is created and takes the lock
w_start ==
    /\ thr.pc = "off"
    /\ _lock = "free"
    /\ thr' = [thr EXCEPT !.pc = "request"]
    /\ _lock' = "thread"
    /\ UNCHANGED <<rb, call, totals, spsc, prbv, _ready, _xrun, _entry_close, _stop,
                   rt, rsz, sunk, marks, trigger>>

\* push(arg, info), first half: reserve the period, or drop it
w_push_reserve ==
    /\ rt.pc = "idle"
    /\ reserve
    /\ call'.cnt[3] >= 1
    /\ call'.ret # 0 => Len(periods) < MaxPushes
    /\ rt' = IF call'.err THEN [pc |-> "died", ret |-> 0]
             ELSE IF call'.ret = 0 THEN [pc |-> "idle", ret |-> 0]
             ELSE [pc |-> "push", ret |-> 1]
    /\ UNCHANGED <<totals, spsc, _lock, _ready, _xrun, _entry_close, _stop,
                   thr, rsz, sunk, marks, trigger>>

\* push(arg, info), second half: one channel after another
w_push_chan ==
    /\ rt.pc = "push"
    /\ prb_push
    /\ rt' = IF call'.err THEN [rt EXCEPT !.pc = "died"]
             ELSE IF _chans_to_write' = 0 THEN [rt EXCEPT !.pc = "idle"]
             ELSE rt
    /\ UNCHANGED <<totals, spsc, _lock, _ready, _xrun, _entry_close, _stop,
                   thr, rsz, sunk, marks, trigger>>

\* data_ready(): signal the writer thread
w_data_ready ==
    /\ rt.pc = "idle"
    /\ ~_ready
    /\ _ready' = TRUE
    /\ UNCHANGED <<rb, call, totals, spsc, prbv, _lock, _xrun, _entry_close, _stop,
                   thr, rt, rsz, sunk, marks, trigger>>

\* xrun()
w_xrun ==
    /\ thr.pc # "off"
    /\ marks.xruns < MaxSignals
    /\ _xrun' = TRUE
    /\ marks' = [marks EXCEPT !.xruns = @ + 1]
    /\ UNCHANGED <<rb, call, totals, spsc, prbv, _lock, _ready, _entry_close, _stop,
                   thr, rt, rsz, sunk, trigger>>

\* close_entry(time)
w_close_entry ==
    /\ marks.closes < MaxSignals
    /\ _entry_close' = TRUE
    /\ marks' = [marks EXCEPT !.closes = @ + 1]
    /\ UNCHANGED <<rb, call, totals, spsc, prbv, _lock, _ready, _xrun, _stop,
                   thr, rt, rsz, sunk, trigger>>

\* stop(): raise the flag and wake the loop
w_stop ==
    /\ thr.pc # "off"
    /\ ~_stop
    /\ _stop' = TRUE
    /\ _ready' = TRUE
    /\ marks' = [marks EXCEPT !.stop = Len(periods)]
    /\ UNCHANGED <<rb, call, totals, spsc, prbv, _lock, _xrun, _entry_close,
                   thr, rt, rsz, sunk, trigger>>

\* join(): returns once the thread has left the loop
w_join ==
    /\ _stop
    /\ thr.pc = "done"
    /\ ~marks.joined
    /\ marks' = [marks EXCEPT !.joined = TRUE]
    /\ UNCHANGED <<rb, call, totals, spsc, prbv, _lock, _ready, _xrun, _entry_close,
                   _stop, thr, rt, rsz, sunk, trigger>>
\* the drain loop reads _stop and asks for the next period: none and
\* stopping ends the loop, none otherwise waits (which gives up the lock); a
\* logic_error ends the thread where it stands
d_request ==
    /\ thr.pc = "request"
    /\ request
    /\ thr' = IF call'.err THEN [thr EXCEPT !.pc = "died"]
              ELSE IF call'.ret # NullPtr THEN [thr EXCEPT !.pc = "pop"]
              ELSE IF _stop THEN [thr EXCEPT !.pc = "done"]
              ELSE [thr EXCEPT !.pc = "wait"]
    /\ _lock' = IF ~call'.err /\ call'.ret = NullPtr THEN "free" ELSE _lock
    /\ UNCHANGED <<totals, spsc, _ready, _xrun, _entry_close, _stop,
                   rt, rsz, sunk, marks, trigger>>

\* the sink's calls for one channel without the report of the xrun
SinkCalls_noxrun(w) ==
    LET log == Append(sunk, w)
    IN  IF _entry_close /\ aligned(log) THEN Append(log, SinkClose) ELSE log

\* what the sink is called with for one channel: a pending xrun first, the
\* write, and close_entry if that was asked for and the sink is aligned
SinkCalls(w) ==
    LET log == (IF _xrun THEN Append(sunk, SinkXrun) ELSE sunk) \o <<w>>
    IN  IF _entry_close /\ aligned(log) THEN Append(log, SinkClose) ELSE log

\* write(info): the channel is popped through the visitor, which hands it to
\* the sink; then the next channel, or back to the top of the loop
d_pop ==
    /\ thr.pc = "pop"
    /\ prb_pop_form("prb_pop_visitor")
    /\ IF call'.err
       THEN /\ thr' = [thr EXCEPT !.pc = "died"]
            /\ UNCHANGED <<sunk, _xrun, _entry_close>>
       ELSE \E time \in CellValues(_read_hdr) : \E nchannels \in HdrNchannels(_read_hdr) :
            LET w == SinkEvent("write", time, call'.cnt, nchannels, call'.out)
            IN  /\ sunk' = SinkCalls(w)
                /\ _xrun' = FALSE
                /\ _entry_close' = (_entry_close /\ sunk'[Len(sunk')] # SinkClose)
                /\ thr' = [thr EXCEPT !.pc = IF _chans_to_read' > 0 THEN "pop"
                                             ELSE "request"]
    /\ UNCHANGED <<totals, spsc, _lock, _ready, _stop, rt, rsz, marks, trigger>>

\* the wait ends on a signal, with the lock taken again
d_wait ==
    /\ thr.pc = "wait"
    /\ _ready
    /\ _lock = "free"
    /\ _ready' = FALSE
    /\ _lock' = "thread"
    /\ thr' = [thr EXCEPT !.pc = "request"]
    /\ UNCHANGED <<rb, call, totals, spsc, prbv, _xrun, _entry_close, _stop,
                   rt, rsz, sunk, marks, trigger>>

\* resize_buffer taking effect for any size asked for
resize_takes_effect_always(sz) == TRUE

\* resize_buffer: "only takes effect if the new size is larger than the
\* current size"
resize_takes_effect(sz) == sz > _size

\* resize_buffer(nframes, nchannels), sz the size they come to
r_call ==
    /\ rsz.pc = "idle"
    /\ \E sz \in ResizeSizes :
          IF resize_takes_effect(sz)
          THEN /\ rsz' = [pc |-> "lock", sz |-> sz]
               /\ marks' = [marks EXCEPT !.resize = Len(periods),
                                        !.written = Len(Writes(sunk))]
               /\ UNCHANGED call
          ELSE /\ call' = PCall("resize_buffer", sz, <<>>, _size, <<>>, <<>>, FALSE)
               /\ UNCHANGED <<rsz, marks>>
    /\ UNCHANGED <<rb, totals, spsc, prbv, _lock, _ready, _xrun, _entry_close,
                   _stop, thr, rt, sunk, trigger>>

\* resize_buffer takes the lock
r_lock ==
    /\ rsz.pc = "lock"
    /\ _lock = "free"
    /\ _lock' = "resize"
    /\ rsz' = [rsz EXCEPT !.pc = "check"]
    /\ UNCHANGED <<rb, call, totals, spsc, prbv, _ready, _xrun, _entry_close, _stop,
                   thr, rt, sunk, marks, trigger>>

\* resize_buffer waits for the buffer to be empty (and the real-time thread
\* to be between two periods)
resize_may_replace == read_space = 0 /\ rt.pc = "idle"

\* under the lock: replace the empty buffer by a new period_ringbuffer(sz),
\* or give the lock back, wake the writer thread and try again
r_check ==
    /\ rsz.pc = "check"
    /\ IF resize_may_replace
       THEN /\ _size' = CtorSize(rsz.sz)
            /\ _buf' = [i \in 0 .. CtorSize(rsz.sz) + Overrun - 1 |-> NoVal]
            /\ _write_ptr' = 0
            /\ _read_ptr' = 0
            /\ _read_hdr' = NullPtr
            /\ _write_hdr' = NullPtr
            /\ _chans_to_read' = 0
            /\ _chans_to_write' = 0
            /\ cur' = <<>>
            /\ rsz' = [rsz EXCEPT !.pc = "idle"]
            /\ call' = PCall("resize_buffer", rsz.sz, <<>>, CtorSize(rsz.sz), <<>>,
                             <<>>, FALSE)
            /\ UNCHANGED <<_ready, periods, nreq, npop>>
       ELSE /\ _ready' = TRUE
            /\ rsz' = [rsz EXCEPT !.pc = "lock"]
            /\ UNCHANGED <<rb, prbv, call>>
    /\ _lock' = "free"
    /\ UNCHANGED <<totals, spsc, _xrun, _entry_close, _stop,
                   thr, rt, sunk, marks, trigger>>

\* the real-time thread pushing and the writer thread draining
PushAndDrain ==
    \/ w_start \/ w_push_reserve \/ w_push_chan \/ w_data_ready
    \/ d_request \/ d_pop \/ d_wait

\* ... with stop() and join()
NextWriter == PushAndDrain \/ w_stop \/ w_join

SpecWriter == InitWriter /\ [][NextWriter]_vars

\* the threads alone, scheduled fairly: start() is called, data_ready()
\* follows the pushes, and the writer thread runs whenever it can
SpecWake ==
    /\ InitWriter
    /\ [][PushAndDrain]_vars
    /\ WF_vars(w_start)
    /\ WF_vars(w_data_ready)
    /\ WF_vars(d_request)
    /\ WF_vars(d_pop)
    /\ WF_vars(d_wait)

\* ... with xrun() and close_entry()
NextSignals == PushAndDrain \/ w_xrun \/ w_close_entry

SpecSignals == InitWriter /\ [][NextSignals]_vars

\* ... with resize_buffer()
NextResize == PushAndDrain \/ r_call \/ r_lock \/ r_check

SpecResize == InitWriter /\ [][NextResize]_vars

(* ------------------------------ trigger ------------------------------- *)
\* trigger_data_t::state
Closed == 0
Open == 1

\* the sample values fed to a trigger: silence, a level between the two
\* thresholds, and a negative excursion beyond both
Samples == {0, 1, 0 - 2}

\* the buffers handed to JILL_trigger_calc_new_state
Buffers == UNION {SeqsOfLen(Samples, nframes) : nframes \in 1 .. MaxFrames}

\* fabs
Abs(x) == IF x < 0 THEN 0 - x ELSE x

RECURSIVE SumTo(_, _)
\* hist[0] + ... + hist[n - 1]
SumTo(hist, n) == IF n = 0 THEN 0 ELSE hist[n - 1] + SumTo(hist, n - 1)

RECURSIVE CrossingsTo(_, _, _)
\* the crossings among the first n samples of buf
CrossingsTo(threshold, buf, n) ==
    IF n < 2 THEN 0
    ELSE CrossingsTo(threshold, buf, n - 1) +
         (IF (Abs(buf[n - 1]) < threshold) # (Abs(buf[n]) < threshold) THEN 1 ELSE 0)

\* JILL_trigger_get_crossings(threshold, buf, nframes): the samples at which
\* the magnitude passes the threshold, in either direction
get_crossings(threshold, buf) == CrossingsTo(threshold, buf, Len(buf))

\* JILL_trigger_create: both histories zeroed, cursors at 0, the gate closed
Created(cpo, cpc, bpo, bpc) ==
    [state |-> Closed,
     open_threshold |-> 2,
     close_threshold |-> 1,
     crossings_per_open_window |-> cpo,
     crossings_per_close_window |-> cpc,
     buffers_per_open_window |-> bpo,
     buffers_per_close_window |-> bpc,
     nopen_crossings |-> [i \in 0 .. bpo - 1 |-> 0],
     nclose_crossings |-> [i \in 0 .. bpc - 1 |-> 0],
     open_idx |-> 0,
     close_idx |-> 0,
     samples_processed |-> 0]

InitTrigger ==
    /\ _size = CtorSize(PrbReqSize)
    /\ _buf = [i \in 0 .. CtorSize(PrbReqSize) + Overrun - 1 |-> NoVal]
    /\ _write_ptr = 0
    /\ _read_ptr = 0
    /\ call = NoCall
    /\ pushed_total = 0
    /\ popped_total = 0
    /\ InitThreads
    /\ InitHdrs
    /\ InitWriterVars
    /\ \E cpo \in 0 .. MaxCrossings, cpc \in 0 .. MaxCrossings,
          bpo \in 1 .. MaxWindow, bpc \in 1 .. MaxWindow :
          trigger = Created(cpo, cpc, bpo, bpc)

\* the gate opening whenever a crossing was seen
opens_on_any(sum) == sum >= 1

\* closed, and the open window holds crossings_per_open_window crossings
opens(sum) == sum >= trigger.crossings_per_open_window

\* the gate closing one crossing too late
closes_one_short(sum) == sum < trigger.crossings_per_close_window - 1

\* open, and the close window holds fewer than crossings_per_close_window
closes(sum) == sum < trigger.crossings_per_close_window

\* a cursor that stays where it is
next_idx_stuck(idx, len) == idx

\* a cursor that runs on past the end of its history
next_idx_nowrap(idx, len) == idx + 1

\* the cursor of a history of len entries after one more write
next_idx(idx, len) == (idx + 1) % len

\* the trigger after JILL_trigger_calc_new_state(trigger, buf, nframes)
calc_new_state(buf) ==
    IF trigger.state = Closed
    THEN LET hist == [trigger.nopen_crossings EXCEPT
                         ![trigger.open_idx] = get_crossings(trigger.open_threshold, buf)]
         IN  [trigger EXCEPT
                 !.nopen_crossings = hist,
                 !.open_idx = next_idx(trigger.open_idx, trigger.buffers_per_open_window),
                 !.state = IF opens(SumTo(hist, trigger.buffers_per_open_window))
                           THEN Open ELSE Closed,
                 !.samples_processed = @ + Len(buf)]
    ELSE LET hist == [trigger.nclose_crossings EXCEPT
                         ![trigger.close_idx] = get_crossings(trigger.close_threshold, buf)]
         IN  [trigger EXCEPT
                 !.nclose_crossings = hist,
                 !.close_idx = next_idx(trigger.close_idx, trigger.buffers_per_close_window),
                 !.state = IF closes(SumTo(hist, trigger.buffers_per_close_window))
                           THEN Closed ELSE Open,
                 !.samples_processed = @ + Len(buf)]

\* JILL_trigger_calc_new_state on the buffer buf
update_call(buf) ==
    /\ trigger.samples_processed + Len(buf) <= MaxProcessed
    /\ trigger' = calc_new_state(buf)
    /\ call' = Call("update", Len(buf), buf, calc_new_state(buf).state, <<>>, <<>>)

\* JILL_trigger_calc_new_state, once per incoming buffer
update ==
    /\ \E buf \in Buffers : update_call(buf)
    /\ UNCHANGED <<rb, totals, spsc, prbv, wtv>>

\* JILL_trigger_get_state
get_state ==
    /\ call' = Call("state", 0, <<>>, trigger.state, <<>>, <<>>)
    /\ UNCHANGED <<rb, totals, spsc, prbv, wtv, trigger>>

NextTrigger == update \/ get_state

SpecTrigger == InitTrigger /\ [][NextTrigger]_vars

\* the updates, with the length of the run of buffers fed to the open gate
\* last that had no crossing of close_threshold
counted_update ==
    /\ \E buf \in Buffers :
          /\ update_call(buf)
          /\ marks' = [marks EXCEPT !.zeros =
                          IF /\ trigger.state = Open
                             /\ get_crossings(trigger.close_threshold, buf) = 0
                          THEN Min(@ + 1, trigger.buffers_per_close_window)
                          ELSE 0]
    /\ UNCHANGED <<rb, totals, spsc, prbv, _lock, _ready, _xrun, _entry_close, _stop,
                   thr, rt, rsz, sunk>>

NextCounted == counted_update \/ get_state

SpecCounted == InitTrigger /\ [][NextCounted]_vars

(* ------------------------- Ringbuffer claims -------------------------- *)
\* the unread elements, oldest first
Contents == [i \in 1 .. read_space |-> _buf[(_read_ptr + i - 1) % _size]]

PopOps == {"pop", "pop_copy"}

\* C2: a push of N elements that all fit, into a buffer holding nothing
\* else, followed by a pop of N elements hands the caller the pushed elements
\* in order, wherever the indices stand (also when the transfer wraps).
C2_RoundTrip ==
    [][(/\ call.op = "push"
        /\ call.ret = Len(call.src)
        /\ read_space = call.ret
        /\ call'.op \in PopOps
        /\ call'.cnt = call.ret)
       => (/\ call'.ret = call.ret
           /\ SubSeq(call'.out, 1, call.ret) = call.src)]_vars

\* the same round trip through the visitor form of pop alone
RoundTrip_visitor ==
    [][(/\ call.op = "push"
        /\ call.ret = Len(call.src)
        /\ read_space = call.ret
        /\ call'.op = "pop"
        /\ call'.cnt = call.ret)
       => (/\ call'.ret = call.ret
           /\ call'.out = call.src)]_vars

IsPrefix(s, t) == Len(s) <= Len(t) /\ SubSeq(t, 1, Len(s)) = s

\* C3: however the steps of one producer's push and one consumer's pop
\* interleave, the consumer reads only slots the producer has finished
\* copying, the producer never writes over a slot not yet read, and what has
\* been popped is a prefix of what has been pushed.
C3_SpscSafety ==
    /\ ~race.early_read
    /\ ~race.overwrite
    /\ IsPrefix(poppedSeq, pushedSeq)

\* the consumer is inside a pop, its run read, while the producer is between
\* the two index updates of a push that wraps
C3_Witness ==
    /\ prod.pc = "copy2"
    /\ cons.pc = "idx1"
    /\ Len(poppedSeq) >= 2

\* C4: read_space() + write_space() = size() - 1 and
\* 0 <= read_space() <= size() - 1 in every state.
C4_SpaceInvariant ==
    /\ read_space + write_space = _size - 1
    /\ 0 <= read_space
    /\ read_space <= _size - 1

C4_Witness ==
    /\ call.op = "flush"
    /\ call.ret > 0
    /\ _write_ptr < _read_ptr
    /\ read_space > 0

\* C5: over push and pop calls alone, what pop returned in total never
\* exceeds what push returned in total, and read_space() is the difference.
C5_Totals ==
    /\ popped_total <= pushed_total
    /\ read_space = pushed_total - popped_total

C5_Witness ==
    /\ popped_total >= 2
    /\ pushed_total > _size
    /\ read_space > 0

\* C10: push returns min(cnt, write_space()), appends that many leading
\* elements of src after the unread ones (which stay as they were) in at most
\* two contiguous runs inside the array, and read_space() grows by the
\* returned value.
C10_PushContract ==
    [][call'.op = "push" =>
         (/\ call'.ret = Min(call'.cnt, write_space)
          /\ (write_space = 0 => call'.ret = 0)
          /\ Contents' = Contents \o SubSeq(call'.src, 1, call'.ret)
          /\ read_space' = read_space + call'.ret
          /\ _read_ptr' = _read_ptr
          /\ Len(call'.runs) <= 2
          /\ \A k \in DOMAIN call'.runs :
                 /\ 0 <= call'.runs[k][1]
                 /\ call'.runs[k][1] + call'.runs[k][2] <= _size)]_vars

C10_Witness ==
    /\ call.op = "push"
    /\ Len(call.runs) = 2
    /\ call.ret < call.cnt
    /\ read_space > call.ret

\* C11: flush(cnt) called when read_space() < cnt does nothing: it returns
\* 0 and leaves the read index, the write index and read_space() unchanged.
C11_FlushShort ==
    [][(call'.op = "flush" /\ read_space < call'.cnt) =>
         (/\ call'.ret = 0
          /\ _read_ptr' = _read_ptr
          /\ _write_ptr' = _write_ptr
          /\ read_space' = read_space)]_vars

IsPowerOfTwo(n) == \E k \in 0 .. SizeTBits : n = 2 ^ k

\* C13: a Ringbuffer constructed with requested size n has a capacity
\* size() that is a power of two with size() >= n and has room for n
\* objects: right after construction write_space() >= n, and a single push
\* of n elements returns n.
C13_CtorRoom ==
    /\ [](call.op = "Ringbuffer" =>
            /\ IsPowerOfTwo(_size)
            /\ _size >= call.cnt
            /\ write_space >= call.cnt)
    /\ [][(call.op = "Ringbuffer" /\ call'.op = "push" /\ call'.cnt = call.cnt) =>
            call'.ret = call.cnt]_vars

\* the n newest elements of s
LastN(s, n) == SubSeq(s, Len(s) - n + 1, Len(s))

\* C12: flush(cnt) called with read_space() >= cnt discards exactly
\* read_space() - cnt of the oldest elements, returns that number, and leaves
\* read_space() = cnt with the remaining elements being the cnt most recently
\* pushed, in order.
C12_FlushKeeps ==
    [][(call'.op = "flush" /\ read_space >= call'.cnt) =>
         (/\ call'.ret = read_space - call'.cnt
          /\ read_space' = call'.cnt
          /\ _write_ptr' = _write_ptr
          /\ Len(pushedSeq) >= call'.cnt
          /\ Contents' = LastN(pushedSeq, call'.cnt))]_vars

\* flush(cnt) with read_space() >= cnt keeps the cnt newest of the elements
\* that were readable, whatever made them readable
FlushKeepsNewestReadable ==
    [][(call'.op = "flush" /\ read_space >= call'.cnt) =>
         (/\ call'.ret = read_space - call'.cnt
          /\ read_space' = call'.cnt
          /\ _write_ptr' = _write_ptr
          /\ Contents' = LastN(Contents, call'.cnt))]_vars

(* ---------------------- period_ringbuffer claims ---------------------- *)
PrbPopOps == {"prb_pop", "prb_pop_visitor"}

Header(p) == <<p.time, p.nbytes, p.nchannels>>

\* C1: once a period of nchannels >= 1 channels is reserved and pushed,
\* request() returns its header (time, nbytes, nchannels), each of the next
\* nchannels pops succeeds, and the k-th of them yields the bytes of the
\* k-th push.
C1_PeriodRoundTrip ==
    /\ (call.op = "request" /\ ~call.err /\ call.ret # NullPtr) =>
          /\ nreq <= Len(periods)
          /\ call.out = Header(periods[nreq])
    /\ (/\ call.op \in PrbPopOps
        /\ nreq >= 1
        /\ nreq <= Len(periods)
        /\ npop + (IF call.err THEN 1 ELSE 0) <= periods[nreq].nchannels) =>
          /\ ~call.err
          /\ call.out = periods[nreq].chans[npop]

\* C6: reserve and every push but the one that completes the period leave
\* the write index and read_space() alone; the completing push advances the
\* write index by header size + nchannels * nbytes at once; request() only
\* ever returns the header of a completely pushed period.
C6_WriteAtomic ==
    /\ [][/\ call'.op = "reserve" =>
               (_write_ptr' = _write_ptr /\ read_space' = read_space)
          /\ call'.op = "prb_push" =>
               IF ~call'.err /\ _chans_to_write' = 0
               THEN LET p == periods'[Len(periods')]
                        n == HeaderSize + p.nchannels * p.nbytes
                    IN  /\ Len(periods') = Len(periods) + 1
                        /\ Len(p.chans) = p.nchannels
                        /\ _write_ptr' = (_write_ptr + n) % _size
                        /\ read_space' = read_space + n
               ELSE _write_ptr' = _write_ptr /\ read_space' = read_space]_vars
    /\ [](call.op = "request" /\ ~call.err /\ call.ret # NullPtr =>
            \E i \in 1 .. Len(periods) :
                /\ periods[i].at = call.ret
                /\ Header(periods[i]) = call.out)

\* a period has been requested while the next one is half pushed
C6_Witness ==
    /\ call.op = "request"
    /\ call.ret # NullPtr
    /\ _chans_to_write = 1
    /\ Len(cur) = 1
    /\ read_space = HeaderSize + periods[1].nchannels * periods[1].nbytes

\* C7: a pop (either form) moves the read index only when it brings
\* _chans_to_read to zero, and then by header size + nchannels * nbytes;
\* while a requested period has channels owed the read index stays on its
\* header, so that its bytes are not part of write_space().
C7_PopAdvance ==
    /\ [][(call'.op \in PrbPopOps /\ ~call'.err /\ nreq >= 1 /\ nreq <= Len(periods)) =>
             IF _chans_to_read' = 0
             THEN _read_ptr' = (_read_ptr + HeaderSize
                                + periods[nreq].nchannels * periods[nreq].nbytes) % _size
             ELSE _read_ptr' = _read_ptr]_vars
    /\ [](_chans_to_read > 0 /\ _read_hdr # NullPtr => _read_ptr = _read_hdr)

\* what a call that raises std::logic_error must leave alone
Untouched ==
    /\ call'.err
    /\ UNCHANGED <<_read_ptr, _write_ptr, _chans_to_read, _chans_to_write,
                   _read_hdr, _write_hdr, _buf>>

\* C8: reserve with channels of the last reservation still owed, push with
\* none owed, request with channels of the last request still owed and pop
\* with none owed each raise the logic error and change nothing.
C8_OutOfProtocol ==
    [][/\ (call'.op = "reserve" /\ _chans_to_write > 0) => Untouched
       /\ (call'.op = "prb_push" /\ _chans_to_write = 0) => Untouched
       /\ (call'.op = "request" /\ _chans_to_read > 0) => Untouched
       /\ (call'.op \in PrbPopOps /\ _chans_to_read = 0) => Untouched]_vars

\* a pop was refused after the requested period had been popped completely
C8_Witness ==
    /\ call.op = "prb_pop"
    /\ call.err
    /\ nreq = 1
    /\ npop = 2
    /\ _chans_to_write > 0

\* C9: with no reservation outstanding, reserve returns 0 and writes nothing
\* exactly when write_space() < header size + nbytes * nchannels; otherwise
\* it returns nonzero, writes the header at the write offset and sets
\* _chans_to_write to nchannels.
C9_ReserveRoom ==
    [][(call'.op = "reserve" /\ _chans_to_write = 0 /\ _write_hdr = NullPtr) =>
         LET nbytes == call'.cnt[2]
             nchannels == call'.cnt[3]
         IN  /\ ~call'.err
             /\ (call'.ret = 0) <=> (write_space < HeaderSize + nbytes * nchannels)
             /\ call'.ret = 0 => UNCHANGED <<_buf, _write_ptr, _read_ptr, hdrs>>
             /\ call'.ret # 0 =>
                   /\ Run(_buf', write_offset, HeaderSize) = call'.cnt
                   /\ _chans_to_write' = nchannels
                   /\ _write_hdr' = write_offset]_vars

(* -------------------- buffered_data_writer claims --------------------- *)
\* the sink's write calls that deliver period p: its channels in order
PeriodWrites(p) ==
    [k \in 1 .. p.nchannels |-> SinkEvent("write", p.time, k - 1, p.nchannels, p.chans[k])]

\* the sink's write calls that deliver the periods ps one after another
RECURSIVE Deliveries(_)
Deliveries(ps) ==
    IF ps = <<>> THEN <<>> ELSE PeriodWrites(Head(ps)) \o Deliveries(Tail(ps))

\* the writer thread has left the drain loop, by returning or by an exception
Ended == thr.pc \in {"done", "died"}

PeriodRoom(args) == HeaderSize + args[2] * args[3]

\* C15: push never blocks and never takes the writer's lock (an idle
\* real-time thread can always enter push, whoever holds the lock, and no
\* step of push changes the lock); when the period buffer has no room for
\* the whole period, push returns zero in its first step, nothing of the
\* period becomes visible to the drain loop, and the periods already
\* buffered are unaffected.
C15_PushSaturated ==
    /\ []((rt.pc = "idle" /\ Len(periods) < MaxPushes) => ENABLED w_push_reserve)
    /\ [][/\ rt' # rt => _lock' = _lock
          /\ (rt.pc = "idle" /\ call'.op = "reserve"
                /\ write_space < PeriodRoom(call'.cnt)) =>
                (/\ rt'.pc = "idle"
                 /\ rt'.ret = 0
                 /\ UNCHANGED <<rb, hdrs, periods, sunk>>)]_vars

\* a period was dropped while the writer thread held the lock, with a
\* period in the buffer
C15_Witness ==
    /\ call.op = "reserve"
    /\ rt = [pc |-> "idle", ret |-> 0]
    /\ write_space < PeriodRoom(call.cnt)
    /\ read_space > 0
    /\ _lock = "thread"

\* the calls the sink gets in a step
NewCalls == SubSeq(sunk', Len(sunk) + 1, Len(sunk'))

Has(log, e) == \E i \in DOMAIN log : log[i] = e

\* the channels pushed and not yet given to the sink when resize_buffer
\* was called
InFlight ==
    LET all == Deliveries(SubSeq(periods, 1, marks.resize))
    IN  SubSeq(all, marks.written + 1, Len(all))

\* the channels the sink was given since resize_buffer was called
WrittenSince ==
    LET all == Writes(sunk)
    IN  SubSeq(all, marks.written + 1, Len(all))

Resized == call.op = "resize_buffer" /\ rsz.pc = "idle" /\ call.cnt = rsz.sz

\* C16: resize_buffer to a larger capacity loses no data: the periods
\* pushed and not yet drained when it is called go to the sink exactly once
\* and in order (what the sink is given after the call starts with those
\* channels, all of them once the buffer is replaced or the writer thread
\* has ended), and the buffer is replaced only when the drain loop has
\* emptied it, the call waiting until then.
C16_ResizeKeepsData ==
    /\ [](marks.resize # NoMark =>
            /\ IsPrefix(WrittenSince, InFlight) \/ IsPrefix(InFlight, WrittenSince)
            /\ (Ended \/ Resized) => IsPrefix(InFlight, WrittenSince))
    /\ [][_size' # _size => (read_space = 0 /\ rsz.pc = "check" /\ Resized')]_vars

\* C17: resize_buffer never shrinks the buffer: the capacity never
\* decreases, and a call asking for a size not larger than the current
\* capacity leaves the buffer and its contents unchanged.
C17_NeverShrinks ==
    [][/\ _size' >= _size
       /\ (call' # call /\ call'.op = "resize_buffer" /\ call'.cnt <= _size) =>
             (/\ call'.ret = _size
              /\ UNCHANGED <<rb, hdrs>>)]_vars

\* the buffer has grown, holds a period, and a smaller size was then asked for
C17_Witness ==
    /\ call.op = "resize_buffer"
    /\ call.cnt < _size
    /\ _size > CtorSize(PrbReqSize)
    /\ read_space > 0

\* C18: an xrun() is surfaced to the sink: when the drain loop writes with
\* the flag pending, the sink's xrun() comes first in that step and the flag
\* is cleared; the sink's xrun() is invoked only with the flag pending, and
\* the flag is cleared only by reporting it.
C18_XrunSurfaced ==
    [][/\ (_xrun /\ NewCalls # <<>>) => (NewCalls[1] = SinkXrun /\ ~_xrun')
       /\ Has(NewCalls, SinkXrun) => _xrun
       /\ (_xrun /\ ~_xrun') => Has(NewCalls, SinkXrun)
       /\ (~_xrun /\ _xrun') => marks'.xruns = marks.xruns + 1]_vars

\* an xrun() that arrived between the two channels of a period was reported
\* before the second channel was written
C18_Witness ==
    /\ Len(sunk) = 3
    /\ sunk[1].ev = "write"
    /\ sunk[2] = SinkXrun
    /\ sunk[3].ev = "write"
    /\ sunk[3].chan = 1
    /\ ~_xrun

\* C19: the sink's close_entry() is invoked only by the drain loop, only
\* after close_entry was requested, and only where the sink's aligned() is
\* true; never between two channel writes of the same period.
C19_CloseDeferred ==
    /\ [][Has(NewCalls, SinkClose) =>
            (/\ thr.pc = "pop"
             /\ _entry_close
             /\ ~_entry_close')]_vars
    /\ [](\A i \in DOMAIN sunk :
            sunk[i] = SinkClose =>
               /\ aligned(SubSeq(sunk, 1, i - 1))
               /\ \E n \in 0 .. Len(periods) :
                     Len(Writes(SubSeq(sunk, 1, i - 1))) =
                        Len(Deliveries(SubSeq(periods, 1, n)))
               /\ i > 1
               /\ sunk[i - 1].ev = "write"
               /\ sunk[i - 1].chan + 1 = sunk[i - 1].nchannels
               /\ (i < Len(sunk) => sunk[i + 1].chan = 0))

\* a close_entry asked for before the second channel of a period was
\* written was carried out after it
C19_Witness ==
    /\ Len(sunk) = 3
    /\ sunk[2].ev = "write"
    /\ sunk[2].chan = 1
    /\ sunk[3] = SinkClose
    /\ ~_entry_close

\* the sum of a window after buf's crossings of threshold are written at idx
SumAfter(hist, idx, len, threshold, buf) ==
    SumTo([hist EXCEPT ![idx] = get_crossings(threshold, buf)], len)

\* C20: with S the sum of the current state's window history after this
\* buffer's crossing count is recorded, update takes closed to open iff
\* S >= crossings_per_open_window and open to closed iff
\* S < crossings_per_close_window, leaves the state alone otherwise, and
\* returns the state the gate is then in, which state() reports too.
C20_Transition ==
    [][/\ (call'.op = "update" /\ trigger' # trigger) =>
            /\ call'.ret = trigger'.state
            /\ trigger.state = Closed =>
                  LET S == SumAfter(trigger.nopen_crossings, trigger.open_idx,
                                    trigger.buffers_per_open_window,
                                    trigger.open_threshold, call'.src)
                  IN  (trigger'.state = Open) <=> (S >= trigger.crossings_per_open_window)
            /\ trigger.state = Open =>
                  LET S == SumAfter(trigger.nclose_crossings, trigger.close_idx,
                                    trigger.buffers_per_close_window,
                                    trigger.close_threshold, call'.src)
                  IN  (trigger'.state = Closed) <=> (S < trigger.crossings_per_close_window)
       /\ (call'.op = "state" /\ call' # call) => call'.ret = trigger.state]_vars

\* the gate has opened and closed again with crossings in its close window
C20_Witness ==
    /\ call.op = "update"
    /\ call.ret = Closed
    /\ trigger.state = Closed
    /\ \E i \in DOMAIN trigger.nclose_crossings : trigger.nclose_crossings[i] > 0
    /\ \E i \in DOMAIN trigger.nopen_crossings : trigger.nopen_crossings[i] > 0

\* the step is an update of the trigger
IsUpdate == call'.op = "update" /\ trigger' # trigger

\* the crossing count update takes from buf in the state the gate is in
CountOf(buf) ==
    get_crossings(IF trigger.state = Closed THEN trigger.open_threshold
                  ELSE trigger.close_threshold, buf)

\* the count is below crossings_per_open_window and crossings_per_close_window
BelowBoth(count) ==
    /\ count < trigger.crossings_per_open_window
    /\ count < trigger.crossings_per_close_window

\* C21: an update with a buffer whose crossing count is below both
\* crossings_per_open_window and crossings_per_close_window never changes
\* the state, whichever state the gate is in and whatever its histories hold.
C21_BelowBothKeeps ==
    [][(IsUpdate /\ BelowBoth(CountOf(call'.src))) =>
          trigger'.state = trigger.state]_vars

\* C21 as amended: such an update leaves a closed gate closed when the rest
\* of the open window holds no crossings; an open gate it leaves open
\* exactly when the close window, this count included, sums to
\* crossings_per_close_window or more.
C21_BelowBothAmended ==
    [][(IsUpdate /\ BelowBoth(CountOf(call'.src))) =>
          /\ (/\ trigger.state = Closed
              /\ \A i \in DOMAIN trigger.nopen_crossings :
                    i # trigger.open_idx => trigger.nopen_crossings[i] = 0) =>
                trigger'.state = Closed
          /\ trigger.state = Open =>
                ((trigger'.state = Open) <=>
                   SumAfter(trigger.nclose_crossings, trigger.close_idx,
                            trigger.buffers_per_close_window,
                            trigger.close_threshold, call'.src) >=
                      trigger.crossings_per_close_window)]_vars

\* a gate that never opened has just recorded a buffer with crossings, fewer
\* than either limit, in an otherwise empty open window
C21_Witness ==
    /\ call.op = "update"
    /\ trigger.state = Closed
    /\ \A i \in DOMAIN trigger.nclose_crossings : trigger.nclose_crossings[i] = 0
    /\ trigger.close_idx = 0
    /\ LET last == (trigger.open_idx + trigger.buffers_per_open_window - 1)
                     % trigger.buffers_per_open_window
       IN  /\ trigger.nopen_crossings[last] >= 1
           /\ trigger.nopen_crossings[last] = get_crossings(trigger.open_threshold, call.src)
           /\ trigger.nopen_crossings[last] < trigger.crossings_per_open_window
           /\ trigger.nopen_crossings[last] < trigger.crossings_per_close_window
           /\ \A i \in DOMAIN trigger.nopen_crossings :
                 i # last => trigger.nopen_crossings[i] = 0

\* C22: with crossings_per_close_window >= 1, once buffers_per_close_window
\* buffers in a row, each without a crossing of close_threshold, have been
\* fed to the open gate, the gate is closed.
C22_QuietCloses ==
    (/\ trigger.crossings_per_close_window >= 1
     /\ marks.zeros >= trigger.buffers_per_close_window) =>
        trigger.state = Closed

\* the gate stayed open through the first quiet buffer on what its close
\* window held, and closed on the last
C22_Witness ==
    /\ call.op = "update"
    /\ trigger.crossings_per_close_window >= 1
    /\ trigger.buffers_per_close_window >= 2
    /\ marks.zeros = trigger.buffers_per_close_window
    /\ trigger.state = Closed

\* C23: advance and flush leave the write index, the capacity and every
\* stored element as they were; advance(cnt) returns min(cnt, read_space())
\* (read_space() when cnt is 0) and moves the read index forward by exactly
\* that amount.
C23_ReaderOnly ==
    [][/\ call'.op \in {"advance", "flush"} =>
            (/\ _write_ptr' = _write_ptr
             /\ _buf' = _buf
             /\ _size' = _size)
       /\ call'.op = "advance" =>
            LET moved == IF call'.cnt = 0 THEN read_space
                         ELSE Min(call'.cnt, read_space)
            IN  /\ call'.ret = moved
                /\ _read_ptr' = (_read_ptr + moved) % _size
                /\ read_space' = read_space - moved]_vars

\* an advance asked for more than was readable, discarded what there was
\* and took the read index round the end of the buffer
C23_Witness ==
    /\ call.op = "advance"
    /\ call.ret >= 1
    /\ call.cnt > call.ret
    /\ read_space = 0
    /\ _read_ptr < call.ret

\* the sink has been given the first n periods pushed
Forwarded(n) ==
    /\ Len(periods) >= n
    /\ IsPrefix(Deliveries(SubSeq(periods, 1, n)), Writes(sunk))

\* C24: no wake-up is lost: whatever way the pushes, the data_ready()
\* signals and the drain loop's waits interleave, every period pushed
\* successfully is eventually forwarded to the sink, the writer thread
\* being scheduled fairly.
C24_NoLostWakeup ==
    \A n \in 1 .. MaxPushes : (Len(periods) >= n) ~> Forwarded(n)

\* C25: update touches only the window of the state the gate is in: while
\* closed it writes the count into the open-window history at open_idx and
\* advances open_idx, leaving the close-window history and close_idx as they
\* were; while open the converse; state() changes nothing.
C25_OneWindow ==
    [][/\ (IsUpdate /\ trigger.state = Closed) =>
            /\ trigger'.nopen_crossings =
                  [trigger.nopen_crossings EXCEPT
                      ![trigger.open_idx] = get_crossings(trigger.open_threshold, call'.src)]
            /\ trigger'.open_idx =
                  (trigger.open_idx + 1) % trigger.buffers_per_open_window
            /\ trigger'.nclose_crossings = trigger.nclose_crossings
            /\ trigger'.close_idx = trigger.close_idx
       /\ (IsUpdate /\ trigger.state = Open) =>
            /\ trigger'.nclose_crossings =
                  [trigger.nclose_crossings EXCEPT
                      ![trigger.close_idx] = get_crossings(trigger.close_threshold, call'.src)]
            /\ trigger'.close_idx =
                  (trigger.close_idx + 1) % trigger.buffers_per_close_window
            /\ trigger'.nopen_crossings = trigger.nopen_crossings
            /\ trigger'.open_idx = trigger.open_idx
       /\ call'.op = "state" => trigger' = trigger]_vars

\* both cursors stand in the middle of their windows, each behind a count
\* it has written
C25_Witness ==
    /\ call.op = "update"
    /\ trigger.open_idx = 1
    /\ trigger.close_idx = 1
    /\ trigger.nopen_crossings[0] >= 1
    /\ trigger.nclose_crossings[0] >= 1

\* C26: the read protocol can be repeated: once the channels of a requested
\* period have all been popped the read side is idle again (no header held,
\* no channel owed), and a request() made then raises no logic_error.
C26_Repeatable ==
    /\ []((call.op \in PrbPopOps /\ ~call.err /\ _chans_to_read = 0) =>
            _read_hdr = NullPtr)
    /\ [][(call'.op = "request" /\ call' # call /\ _chans_to_read = 0) =>
            ~call'.err]_vars

\* C27: request and pop leave the write side's header reference and count of
\* channels owed alone, so whatever way a thread in reserve and push and a
\* thread in request and pop interleave, the writer's header reference is
\* valid from reserve until the push that completes the period.
C27_SidesApart ==
    /\ []((prod.pc \in {"reserve_hdr", "push_done"} \/ _chans_to_write > 0) =>
            _write_hdr # NullPtr)
    /\ [][(call' # call /\ call'.op \in PrbPopOps \cup {"request"}) =>
            UNCHANGED <<_write_hdr, _chans_to_write>>]_vars

PrbOps == PrbPopOps \cup {"reserve", "prb_push", "request"}

\* C28: every byte written or read for a period (the header by reserve and
\* by request, a channel block by push and by pop) lies inside the backing
\* array, at an offset in [0, capacity), also when the period does not fit
\* between the write or read offset and the end of the array.
C28_InsideArray ==
    call.op \in PrbOps =>
        \A i \in DOMAIN call.runs :
            /\ call.runs[i][1] >= 0
            /\ call.runs[i][1] + call.runs[i][2] <= _size

\* C29: the write side cannot get stuck: in no reachable state do reserve
\* and push both raise a logic_error, so after any successful reserve (also
\* one of a period without channels) pushes lead to a state that accepts
\* the next reserve.
C29_WriteSideLive == ~(reserve_busy /\ push_idle)

\* C30: after any sequence of updates both cursors are inside their
\* windows, each history has the length of its window, and every entry is a
\* crossing count of one buffer: not negative, not above the length of a
\* buffer (the one just recorded not above the length of its own buffer).
C30_CursorsInside ==
    /\ trigger.open_idx \in 0 .. trigger.buffers_per_open_window - 1
    /\ trigger.close_idx \in 0 .. trigger.buffers_per_close_window - 1
    /\ DOMAIN trigger.nopen_crossings = 0 .. trigger.buffers_per_open_window - 1
    /\ DOMAIN trigger.nclose_crossings = 0 .. trigger.buffers_per_close_window - 1
    /\ \A i \in DOMAIN trigger.nopen_crossings :
          trigger.nopen_crossings[i] \in 0 .. MaxFrames
    /\ \A i \in DOMAIN trigger.nclose_crossings :
          trigger.nclose_crossings[i] \in 0 .. MaxFrames
    /\ call.op = "update" =>
          LET wrote_open == trigger.nopen_crossings[
                  (trigger.open_idx + trigger.buffers_per_open_window - 1)
                     % trigger.buffers_per_open_window]
              wrote_close == trigger.nclose_crossings[
                  (trigger.close_idx + trigger.buffers_per_close_window - 1)
                     % trigger.buffers_per_close_window]
          IN  \/ /\ wrote_open = get_crossings(trigger.open_threshold, call.src)
                 /\ wrote_open <= call.cnt
              \/ /\ wrote_close = get_crossings(trigger.close_threshold, call.src)
                 /\ wrote_close <= call.cnt

\* the open cursor has gone round its window and the close cursor has moved
C30_Witness ==
    /\ call.op = "update"
    /\ trigger.buffers_per_open_window >= 2
    /\ trigger.buffers_per_close_window >= 2
    /\ trigger.open_idx = 0
    /\ trigger.nopen_crossings[trigger.buffers_per_open_window - 1] >= 1
    /\ trigger.close_idx = 1
====
